---------------------------- MODULE Spec2Model ----------------------------
(***************************************************************************)
(* claude-analytics: session grouping (history parser), the sync into the  *)
(* SQLite store, and the achievement evaluator.                            *)
(*                                                                         *)
(* Dates are modelled by their epoch-millisecond value (Date.getTime()).   *)
(* An optional string (sessionId?: string) is a sequence of length 0 or 1. *)
(***************************************************************************)
EXTENDS Integers, Sequences, FiniteSets, TLC

(***************************************************************************)
(* Bounds of the model                                                     *)
(***************************************************************************)
MaxEntries == 3      \* longest entry list handed to groupIntoSessions
MaxTs == 3           \* largest timestamp in such a list
MaxGap == 2          \* largest sessionGapMs tried
MaxEvents == 3       \* most lines appended to history.jsonl
MaxTicks == 2        \* most clock readings later than the previous reading
MaxSyncs == 2        \* most syncData runs
MaxConfigWrites == 1 \* most rewrites of ~/.claude.json
MaxChecks == 2       \* most getNewAchievements calls
MaxDaysBack == 4     \* calculateStreak: how far back single active days are tried
MaxUsage == 4        \* proficiency: the session counts tried from 1 up

Projects == {"p1", "p2"}
ExplicitIds == {"", "s1"}

None == <<>>
Some(s) == <<s>>
SessionIdValues == {None} \cup {Some(s) : s \in ExplicitIds}

VARIABLES
    gEntries,      \* groupIntoSessions: the entries argument
    gGap,          \* groupIntoSessions: the sessionGapMs argument
    gOut,          \* groupIntoSessions: what the call returned (with its grouping)
    gPc            \* "call" before the call, "done" after it

VARIABLES
    fnArg,         \* the arguments of a call of one of the other pure functions
    fnOut,         \* what that call returned
    fnPc           \* "idle", the name of the function before the call, "done" after it

VARIABLES
    now,           \* the last reading of the wall clock (new Date()), in ms
    ticks,         \* how many readings were later than the one before
    history,       \* the valid entries of ~/.claude/history.jsonl, in file order
    config,        \* ~/.claude.json: Malformed, or project path -> metrics
    sessions,      \* table sessions: session_id -> row
    prompts,       \* table prompts: rows in insertion (AUTOINCREMENT id) order
    projects,      \* table projects: project_path -> row
    metadata,      \* table metadata: the value of key last_sync_time, if any
    result,        \* the SyncResult returned by the last syncData call
    lastSync,      \* what the last syncData call saw before it ran
    lastOp,        \* what ran last: "sync", "check", "save" or "write" (of a file)
    syncs,         \* how many times syncData ran
    configWrites,  \* how many times ~/.claude.json was rewritten
    achievements,  \* table achievements: achievement_id -> row
    lastNew,       \* what the last getNewAchievements call returned
    checks,        \* how many times getNewAchievements ran
    lastCheck,     \* the last two getNewAchievements calls and what ran between them
    sinceCheck,    \* what ran after the last getNewAchievements call
    proc           \* the last process (CLI command or hook) that ran to its end

fvars == <<fnArg, fnOut, fnPc>>
gvars == <<gEntries, gGap, gOut, gPc, fnArg, fnOut, fnPc>>
svars == <<now, ticks, history, config, sessions, prompts, projects, metadata,
           result, lastSync, lastOp, syncs, configWrites,
           achievements, lastNew, checks, lastCheck, sinceCheck, proc>>
avars == <<achievements, lastNew, checks, lastCheck, sinceCheck>>
vars == <<gEntries, gGap, gOut, gPc, fnArg, fnOut, fnPc, now, ticks, history, config,
          sessions, prompts, projects, metadata, result, lastSync, lastOp, syncs,
          configWrites, achievements, lastNew, checks, lastCheck, sinceCheck, proc>>

(***************************************************************************)
(* history-parser: groupIntoSessions                                       *)
(***************************************************************************)

\* `auto-${sessions.length}`
AutoId(n) == "auto-" \o ToString(n)

\* JavaScript truthiness of an optional string: undefined and "" are falsy
Truthy(optId) == optId # None /\ optId[1] # ""

\* [...entries].sort((a, b) => a.timestamp - b.timestamp): Array.prototype.sort
\* is stable, so entries of equal timestamp keep their input order
RECURSIVE InsertByTimestamp(_, _)
RECURSIVE SortByTimestamp(_)

\* mutant: the copy is not sorted
SortByTimestampUnsorted(entries) == entries


InsertByTimestamp(e, s) ==
    IF s = <<>> THEN <<e>>
    ELSE IF s[Len(s)].timestamp <= e.timestamp THEN Append(s, e)
    ELSE Append(InsertByTimestamp(e, SubSeq(s, 1, Len(s) - 1)), s[Len(s)])

SortByTimestamp(entries) ==
    IF entries = <<>> THEN <<>>
    ELSE InsertByTimestamp(entries[Len(entries)],
                           SortByTimestamp(SubSeq(entries, 1, Len(entries) - 1)))

\* the record pushed to sessions for an accumulator, when n sessions were
\* pushed before it
FinalizeSession(cur, n) ==
    [sessionId   |-> IF Truthy(cur.sessionId) THEN cur.sessionId[1] ELSE AutoId(n),
     project     |-> cur.project,
     startTime   |-> cur.startTime,
     endTime     |-> cur.endTime,
     promptCount |-> Len(cur.prompts),
     duration    |-> cur.endTime - cur.startTime,
     firstPrompt |-> cur.prompts[1].display,
     lastPrompt  |-> cur.prompts[Len(cur.prompts)].display]

\* mutant: the idle gap is compared with >= instead of >
ShouldStartNewGe(cur, entry, sessionGapMs) ==
    \/ cur = <<>>
    \/ entry.sessionId # cur[1].sessionId
    \/ entry.project # cur[1].project
    \/ entry.timestamp - cur[1].endTime >= sessionGapMs

\* mutant: a project change does not start a new session
ShouldStartNewNoProject(cur, entry, sessionGapMs) ==
    \/ cur = <<>>
    \/ entry.sessionId # cur[1].sessionId
    \/ entry.timestamp - cur[1].endTime > sessionGapMs

\* shouldStartNew of the loop body; cur is <<>> for null, <<accumulator>> otherwise
ShouldStartNew(cur, entry, sessionGapMs) ==
    \/ cur = <<>>
    \/ entry.sessionId # cur[1].sessionId
    \/ entry.project # cur[1].project
    \/ entry.timestamp - cur[1].endTime > sessionGapMs

\* "Save previous session": push the accumulator if there is a non-empty one.
\* groups records, next to each pushed session, the prompts of its accumulator.
PushCurrent(st) ==
    IF st.cur # <<>> /\ Len(st.cur[1].prompts) > 0
    THEN [st EXCEPT !.sessions = Append(@, FinalizeSession(st.cur[1], Len(st.sessions))),
                    !.groups = Append(@, st.cur[1].prompts)]
    ELSE st

\* one iteration of `for (const entry of sorted)`
GroupStep(st, entry, sessionGapMs) ==
    IF ShouldStartNew(st.cur, entry, sessionGapMs)
    THEN [PushCurrent(st) EXCEPT !.cur =
            <<[sessionId |-> entry.sessionId,
               project   |-> entry.project,
               startTime |-> entry.timestamp,
               endTime   |-> entry.timestamp,
               prompts   |-> <<entry>>]>>]
    ELSE [st EXCEPT !.cur = <<[st.cur[1] EXCEPT !.endTime = entry.timestamp,
                                               !.prompts = Append(@, entry)]>>]

RECURSIVE GroupLoop(_, _, _)
GroupLoop(st, sorted, sessionGapMs) ==
    IF sorted = <<>> THEN st
    ELSE GroupLoop(GroupStep(st, Head(sorted), sessionGapMs), Tail(sorted), sessionGapMs)

\* mutant: the accumulator still open at the end of the input is forgotten
GroupRunNoLast(entries, sessionGapMs) ==
    IF Len(entries) = 0
    THEN [sessions |-> <<>>, groups |-> <<>>, sorted |-> <<>>]
    ELSE LET sorted == SortByTimestamp(entries)
             st == GroupLoop([sessions |-> <<>>, groups |-> <<>>, cur |-> <<>>],
                             sorted, sessionGapMs)
         IN  [sessions |-> st.sessions, groups |-> st.groups, sorted |-> sorted]

\* the whole function: .sessions is the returned Session[], .groups[k] the
\* entries that were grouped into sessions[k], .sorted the sorted copy
GroupRun(entries, sessionGapMs) ==
    IF Len(entries) = 0
    THEN [sessions |-> <<>>, groups |-> <<>>, sorted |-> <<>>]
    ELSE LET sorted == SortByTimestamp(entries)
             st == PushCurrent(GroupLoop([sessions |-> <<>>, groups |-> <<>>, cur |-> <<>>],
                                         sorted, sessionGapMs))
         IN  [sessions |-> st.sessions, groups |-> st.groups, sorted |-> sorted]

groupIntoSessions(entries, sessionGapMs) == GroupRun(entries, sessionGapMs).sessions

(***************************************************************************)
(* Dates in the store                                                      *)
(***************************************************************************)
MsPerDay == 24 * 60 * 60 * 1000

\* Date.prototype.toISOString(): the UTC calendar day and the time within it
\* ("YYYY-MM-DD" and "THH:mm:ss.sssZ"); ISO strings of the same length compare
\* as these pairs do
ToISOString(t) == <<t \div MsPerDay, t % MsPerDay>>

\* new Date(isoString).getTime()
NewDate(iso) == iso[1] * MsPerDay + iso[2]

Max(a, b) == IF a >= b THEN a ELSE b

(***************************************************************************)
(* database/schema: the statements run against the store                   *)
(***************************************************************************)

\* mutant: the conflict clause also overwrites start_time and first_prompt
upsertSessionReplace(tbl, session) ==
    (session.sessionId :>
        [project      |-> session.project,
         start_time   |-> ToISOString(session.startTime),
         end_time     |-> ToISOString(session.endTime),
         prompt_count |-> session.promptCount,
         duration_ms  |-> session.duration,
         first_prompt |-> session.firstPrompt,
         last_prompt  |-> session.lastPrompt]) @@ tbl

\* INSERT INTO sessions ... ON CONFLICT(session_id) DO UPDATE SET end_time,
\* prompt_count, duration_ms, last_prompt
upsertSession(tbl, session) ==
    IF session.sessionId \in DOMAIN tbl
    THEN [tbl EXCEPT ![session.sessionId] =
            [@ EXCEPT !.end_time     = ToISOString(session.endTime),
                      !.prompt_count = session.promptCount,
                      !.duration_ms  = session.duration,
                      !.last_prompt  = session.lastPrompt]]
    ELSE (session.sessionId :>
            [project      |-> session.project,
             start_time   |-> ToISOString(session.startTime),
             end_time     |-> ToISOString(session.endTime),
             prompt_count |-> session.promptCount,
             duration_ms  |-> session.duration,
             first_prompt |-> session.firstPrompt,
             last_prompt  |-> session.lastPrompt]) @@ tbl

\* INSERT INTO prompts: a new row with the next AUTOINCREMENT id
insertPrompt(tbl, prompt) ==
    Append(tbl, [session_id |-> prompt.sessionId,
                 project    |-> prompt.project,
                 display    |-> prompt.display,
                 timestamp  |-> ToISOString(prompt.timestamp)])

\* FOREIGN KEY (session_id) REFERENCES sessions(session_id), foreign_keys = ON:
\* the insert throws when the session row does not exist
PromptForeignKeyOk(sessTbl, sessionId) == sessionId \in DOMAIN sessTbl

\* INSERT INTO projects ... ON CONFLICT(project_path) DO UPDATE SET every
\* column but first_seen
upsertProjectStats(tbl, stats) ==
    IF stats.projectPath \in DOMAIN tbl
    THEN [tbl EXCEPT ![stats.projectPath] =
            [@ EXCEPT !.last_active           = ToISOString(stats.lastActive),
                      !.total_prompts         = stats.totalPrompts,
                      !.total_sessions        = stats.totalSessions,
                      !.total_duration_ms     = stats.totalDuration,
                      !.cache_creation_tokens = stats.cacheCreationTokens,
                      !.cache_read_tokens     = stats.cacheReadTokens]]
    ELSE (stats.projectPath :>
            [first_seen            |-> ToISOString(stats.firstSeen),
             last_active           |-> ToISOString(stats.lastActive),
             total_prompts         |-> stats.totalPrompts,
             total_sessions        |-> stats.totalSessions,
             total_duration_ms     |-> stats.totalDuration,
             cache_creation_tokens |-> stats.cacheCreationTokens,
             cache_read_tokens     |-> stats.cacheReadTokens]) @@ tbl

\* mutant: only the date part of the value is stored
setMetadataDateOnly(value) == Some(<<value[1], 0>>)

\* INSERT INTO metadata ... ON CONFLICT(key) DO UPDATE SET value
setMetadata(value) == Some(value)

\* SELECT value FROM metadata WHERE key = ?  (None when there is no row)
getMetadata(tbl) == tbl

(***************************************************************************)
(* parsers/project-parser: the project metrics snapshot                    *)
(***************************************************************************)
\* a document on which JSON.parse or ClaudeConfigSchema.parse throws
Malformed == [malformed |-> TRUE, projects |-> <<>>]

\* the cache token counters of one project's metrics
MetricsValues ==
    {[lastTotalCacheReadInputTokens |-> 900, lastTotalCacheCreationInputTokens |-> 100],
     [lastTotalCacheReadInputTokens |-> 800, lastTotalCacheCreationInputTokens |-> 200]}

ConfigProjects == {"p1"}

EmptyMap == <<>>

\* the value readClaudeConfig returns for a readable document (or a missing file)
ClaudeConfig(ps) == [malformed |-> FALSE, projects |-> ps]

\* the documents ~/.claude.json can hold: one that fails JSON.parse or the
\* schema, or a map from project path to metrics (empty when the file is absent)
ConfigValues ==
    {Malformed} \cup
    {ClaudeConfig(m) : m \in UNION {[ps -> MetricsValues] : ps \in SUBSET ConfigProjects}}

(***************************************************************************)
(* utils/sync: syncData                                                    *)
(***************************************************************************)
DefaultSessionGapMs == 30 * 60 * 1000

\* mutant: entries as old as the watermark are processed again
IsNewEntryGe(entry, lastSyncTime) == entry.timestamp >= lastSyncTime

\* (entry) => new Date(entry.timestamp) > lastSyncTime
IsNewEntry(entry, lastSyncTime) == entry.timestamp > lastSyncTime

\* entriesToProcess: every entry on a first sync, the newer ones afterwards
EntriesToProcess(historyEntries, lastSyncStr) ==
    IF lastSyncStr # None
    THEN SelectSeq(historyEntries, LAMBDA e : IsNewEntry(e, NewDate(lastSyncStr[1])))
    ELSE historyEntries

\* the statements of one run that throw (a locked or full database, a broken
\* row): positions in the session list, positions in the entry list, paths
NoFaults == [sessions |-> {}, prompts |-> {}, projects |-> {}]

\* mutant: the catch block of a record drops the failure
RecordFailureDropped(st, message) == st

\* catch (error) { result.errors.push(message) }: the loop goes on
RecordFailure(st, message) == [st EXCEPT !.errors = Append(@, message)]

\* for (const session of sessions) { try { upsertSession(db, session);
\* result.sessionsCreated++ } catch ... }; st = [tbl, created, errors], k is
\* the position of Head(ss) in the session list
RECURSIVE UpsertSessions(_, _, _, _)
UpsertSessions(st, ss, k, faults) ==
    IF ss = <<>> THEN st
    ELSE LET next ==
                IF k \in faults.sessions
                THEN RecordFailure(st, "Failed to insert session " \o Head(ss).sessionId)
                ELSE [st EXCEPT !.tbl = upsertSession(@, Head(ss)), !.created = @ + 1]
         IN  UpsertSessions(next, Tail(ss), k + 1, faults)

\* sessions.find(s => timestamp >= s.startTime && timestamp <= s.endTime &&
\* s.project === entry.project): the index of the first match, 0 for undefined
FindSession(ss, entry) ==
    LET matches == {k \in 1..Len(ss) :
                        /\ entry.timestamp >= ss[k].startTime
                        /\ entry.timestamp <= ss[k].endTime
                        /\ ss[k].project = entry.project}
    IN  IF matches = {} THEN 0 ELSE CHOOSE k \in matches : \A j \in matches : k <= j

\* the prompt loop; st = [tbl, processed, errors], i is the position of
\* Head(entries) in the entry list
RECURSIVE InsertPrompts(_, _, _, _, _, _)
InsertPrompts(st, entries, i, ss, sessTbl, faults) ==
    IF entries = <<>> THEN st
    ELSE LET entry == Head(entries)
             k == FindSession(ss, entry)
             next ==
                IF k = 0 THEN st
                ELSE IF i \notin faults.prompts /\ PromptForeignKeyOk(sessTbl, ss[k].sessionId)
                THEN [st EXCEPT !.tbl = insertPrompt(@, [sessionId |-> ss[k].sessionId,
                                                         project   |-> entry.project,
                                                         display   |-> entry.display,
                                                         timestamp |-> entry.timestamp]),
                                !.processed = @ + 1]
                ELSE RecordFailure(st, "Failed to insert prompt")
         IN  InsertPrompts(next, Tail(entries), i + 1, ss, sessTbl, faults)

\* the projectStats map built from the sessions of this run
RECURSIVE ProjectStatsOf(_, _)
ProjectStatsOf(m, ss) ==
    IF ss = <<>> THEN m
    ELSE LET session == Head(ss)
             next ==
                IF session.project \in DOMAIN m
                THEN [m EXCEPT ![session.project] =
                        [@ EXCEPT !.lastActive    = Max(@, session.endTime),
                                  !.totalPrompts  = @ + session.promptCount,
                                  !.totalSessions = @ + 1,
                                  !.totalDuration = @ + session.duration]]
                ELSE (session.project :>
                        [firstSeen     |-> session.startTime,
                         lastActive    |-> session.endTime,
                         totalPrompts  |-> session.promptCount,
                         totalSessions |-> 1,
                         totalDuration |-> session.duration]) @@ m
         IN  ProjectStatsOf(next, Tail(ss))

\* the argument of upsertProjectStats for one project path; t is new Date()
MergedStats(projectPath, projectStats, configProjects, t) ==
    LET hasSession == projectPath \in DOMAIN projectStats
        hasConfig == projectPath \in DOMAIN configProjects
    IN  [projectPath   |-> projectPath,
         firstSeen     |-> IF hasSession THEN projectStats[projectPath].firstSeen ELSE t,
         lastActive    |-> IF hasSession THEN projectStats[projectPath].lastActive ELSE t,
         totalPrompts  |-> IF hasSession THEN projectStats[projectPath].totalPrompts ELSE 0,
         totalSessions |-> IF hasSession THEN projectStats[projectPath].totalSessions ELSE 0,
         totalDuration |-> IF hasSession THEN projectStats[projectPath].totalDuration ELSE 0,
         cacheCreationTokens |->
            IF hasConfig THEN configProjects[projectPath].lastTotalCacheCreationInputTokens ELSE 0,
         cacheReadTokens |->
            IF hasConfig THEN configProjects[projectPath].lastTotalCacheReadInputTokens ELSE 0]

\* for (const projectPath of allProjects) { try { upsertProjectStats(db,
\* {...}); result.projectsUpdated++ } catch ... }; st = [tbl, updated, errors]
RECURSIVE UpsertProjects(_, _, _, _, _, _)
UpsertProjects(st, paths, projectStats, configProjects, t, faults) ==
    IF paths = {} THEN st
    ELSE LET p == CHOOSE x \in paths : TRUE
             next ==
                IF p \in faults.projects
                THEN RecordFailure(st, "Failed to update project " \o p)
                ELSE [st EXCEPT !.tbl = upsertProjectStats(@, MergedStats(p, projectStats,
                                                                         configProjects, t)),
                                !.updated = @ + 1]
         IN  UpsertProjects(next, paths \ {p}, projectStats, configProjects, t, faults)

\* syncData(db) with the statements of faults throwing: the store and the
\* result it leaves. started is the clock reading taken for
\* result.lastSyncTime before anything is read, t the reading of the
\* new Date() calls of the project loop
SyncRunAt(started, t, faults) ==
    LET lastSyncStr == getMetadata(metadata)
        entriesToProcess == EntriesToProcess(history, lastSyncStr)
        newSessions == groupIntoSessions(entriesToProcess, DefaultSessionGapMs)
        ups == UpsertSessions([tbl |-> sessions, created |-> 0, errors |-> <<>>],
                              newSessions, 1, faults)
        ins == InsertPrompts([tbl |-> prompts, processed |-> 0, errors |-> ups.errors],
                             entriesToProcess, 1, newSessions, ups.tbl, faults)
        projectStats == ProjectStatsOf(EmptyMap, newSessions)
    IN  IF config.malformed
        THEN \* readClaudeConfig throws: the outer catch, after sessions and prompts
             [sessions |-> ups.tbl, prompts |-> ins.tbl, projects |-> projects,
              metadata |-> metadata,
              result |-> [promptsProcessed |-> ins.processed,
                          sessionsCreated  |-> ups.created,
                          projectsUpdated  |-> 0,
                          errors           |-> Append(ins.errors, "Sync failed"),
                          lastSyncTime     |-> started]]
        ELSE LET configProjects == config.projects
                 allProjects == DOMAIN projectStats \cup DOMAIN configProjects
                 prj == UpsertProjects([tbl |-> projects, updated |-> 0, errors |-> ins.errors],
                                       allProjects, projectStats, configProjects, t, faults)
             IN  [sessions |-> ups.tbl, prompts |-> ins.tbl,
                  projects |-> prj.tbl,
                  metadata |-> setMetadata(ToISOString(started)),
                  result |-> [promptsProcessed |-> ins.processed,
                              sessionsCreated  |-> ups.created,
                              projectsUpdated  |-> prj.updated,
                              errors           |-> prj.errors,
                              lastSyncTime     |-> started]]

\* the same when the run takes no time: every clock reading of the run is t
SyncRun(t, faults) == SyncRunAt(t, t, faults)

(***************************************************************************)
(* utils/achievements: the five rule families                              *)
(***************************************************************************)
Achievement(id, type, t, meta) ==
    [id |-> id, type |-> type, unlockedAt |-> t, metadata |-> meta]

\* DATE(start_time) of every session row
ActivityDates(sessTbl) == {sessTbl[id].start_time[1] : id \in DOMAIN sessTbl}

\* the streak query: the rows of streak_calc that share the streak_group of the
\* most recent activity date are the dates of the run of consecutive days that
\* ends at that date (row number and days_ago both grow by one per day)
CurrentStreakQuery(sessTbl) ==
    LET dates == ActivityDates(sessTbl)
    IN  IF dates = {} THEN 0
        ELSE LET latest == CHOOSE d \in dates : \A e \in dates : e <= d
             IN  Cardinality({d \in dates : \A x \in d..latest : x \in dates})

StreakMilestones == {3, 7, 14, 30, 60, 90, 180, 365}

checkStreakAchievements(sessTbl, t) ==
    LET currentStreak == CurrentStreakQuery(sessTbl)
    IN  {Achievement("streak_" \o ToString(days), "streak", t, currentStreak) :
            days \in {m \in StreakMilestones : currentStreak >= m}}

\* detectSkillsFromPath: the taxonomy names with a detection pattern that is a
\* substring of the lower-cased path; no pattern occurs in "p1" or "p2"
detectSkillsFromPath(projectPath) == {}

\* analyzeSkillProficiency builds one entry per skill detected in the path of
\* a project with sessions; the achievements are those of the entries whose
\* level is expert or advanced
checkSkillAchievements(sessTbl, t) ==
    LET skills == UNION {detectSkillsFromPath(sessTbl[id].project) : id \in DOMAIN sessTbl}
    IN  {Achievement("skill_" \o skill, "skill", t, skill) : skill \in skills}

RECURSIVE SumOver(_, _)
SumOver(f, keys) ==
    IF keys = {} THEN 0
    ELSE LET k == CHOOSE x \in keys : TRUE IN f[k] + SumOver(f, keys \ {k})

\* Math.round of the non-negative quotient a / b
RoundDiv(a, b) == (2 * a + b) \div (2 * b)

\* mutant: the two thresholds are tested independently of each other
checkCostAchievementsBoth(projTbl, t) ==
    LET rows == {p \in DOMAIN projTbl : projTbl[p].cache_creation_tokens > 0}
        cache_read == SumOver([p \in rows |-> projTbl[p].cache_read_tokens], rows)
        cache_creation == SumOver([p \in rows |-> projTbl[p].cache_creation_tokens], rows)
        total == cache_read + cache_creation
    IN  IF cache_read # 0 /\ cache_creation # 0
        THEN (IF 100 * cache_read >= 90 * total
              THEN {Achievement("cache_master", "cost", t, RoundDiv(100 * cache_read, total))}
              ELSE {})
             \cup
             (IF 100 * cache_read >= 80 * total
              THEN {Achievement("cache_optimizer", "cost", t, RoundDiv(100 * cache_read, total))}
              ELSE {})
        ELSE {}

\* mutant: the upper threshold is tested with > instead of >=
checkCostAchievementsGt(projTbl, t) ==
    LET rows == {p \in DOMAIN projTbl : projTbl[p].cache_creation_tokens > 0}
        cache_read == SumOver([p \in rows |-> projTbl[p].cache_read_tokens], rows)
        cache_creation == SumOver([p \in rows |-> projTbl[p].cache_creation_tokens], rows)
        total == cache_read + cache_creation
    IN  IF cache_read # 0 /\ cache_creation # 0
        THEN IF 100 * cache_read > 90 * total
             THEN {Achievement("cache_master", "cost", t, RoundDiv(100 * cache_read, total))}
             ELSE IF 100 * cache_read >= 80 * total
             THEN {Achievement("cache_optimizer", "cost", t, RoundDiv(100 * cache_read, total))}
             ELSE {}
        ELSE {}

\* SUM(cache_read_tokens), SUM(cache_creation_tokens) over the projects with
\* cache_creation_tokens > 0; hitRatio = read / (read + creation) * 100.
\* The sums are integers below 2^53; for them the double hitRatio is >= 90
\* (>= 80) exactly when 100 * read >= 90 * (read + creation) (80 *), because
\* division and multiplication round monotonically and 0.9 * 100 and 0.8 * 100
\* round to 90 and 80
checkCostAchievements(projTbl, t) ==
    LET rows == {p \in DOMAIN projTbl : projTbl[p].cache_creation_tokens > 0}
        cache_read == SumOver([p \in rows |-> projTbl[p].cache_read_tokens], rows)
        cache_creation == SumOver([p \in rows |-> projTbl[p].cache_creation_tokens], rows)
        total == cache_read + cache_creation
    IN  IF cache_read # 0 /\ cache_creation # 0
        THEN IF 100 * cache_read >= 90 * total
             THEN {Achievement("cache_master", "cost", t, RoundDiv(100 * cache_read, total))}
             ELSE IF 100 * cache_read >= 80 * total
             THEN {Achievement("cache_optimizer", "cost", t, RoundDiv(100 * cache_read, total))}
             ELSE {}
        ELSE {}

SessionMilestones == {10, 50, 100, 250, 500, 1000}
PromptMilestones == {100, 500, 1000, 5000, 10000}

checkProductivityAchievements(sessTbl, t) ==
    LET totalSessions == Cardinality(DOMAIN sessTbl)
        totalPrompts == SumOver([id \in DOMAIN sessTbl |-> sessTbl[id].prompt_count],
                                DOMAIN sessTbl)
    IN  {Achievement("sessions_" \o ToString(c), "productivity", t, totalSessions) :
            c \in {m \in SessionMilestones : totalSessions >= m}}
        \cup
        {Achievement("prompts_" \o ToString(c), "productivity", t, totalPrompts) :
            c \in {m \in PromptMilestones : totalPrompts >= m}}

TimeMilestones == {1, 7, 30, 90, 180, 365}

\* date-fns differenceInDays(later, earlier): the number of full days between
differenceInDays(later, earlier) == (later - earlier) \div MsPerDay

\* strftime('%w', start_time): 0 is Sunday; 1970-01-01 was a Thursday
DayOfWeek(iso) == (iso[1] + 4) % 7

checkMilestoneAchievements(sessTbl, t) ==
    LET starts == {NewDate(sessTbl[id].start_time) : id \in DOMAIN sessTbl}
        weekendCount == Cardinality({id \in DOMAIN sessTbl :
                                        DayOfWeek(sessTbl[id].start_time) \in {0, 6}})
        timeBased ==
            IF starts = {} THEN {}
            ELSE LET first_session == CHOOSE x \in starts : \A y \in starts : x <= y
                     daysSinceStart == differenceInDays(t, first_session)
                 IN  {Achievement("milestone_" \o ToString(days) \o "_days", "milestone", t,
                                  daysSinceStart) :
                        days \in {m \in TimeMilestones : daysSinceStart >= m}}
    IN  timeBased \cup
        (IF weekendCount >= 10
         THEN {Achievement("weekend_warrior", "milestone", t, weekendCount)}
         ELSE {})

\* allChecks filtered to check.achieved && check.achievement
AchievedNow(sessTbl, projTbl, t) ==
    checkStreakAchievements(sessTbl, t) \cup checkSkillAchievements(sessTbl, t)
    \cup checkCostAchievements(projTbl, t) \cup checkProductivityAchievements(sessTbl, t)
    \cup checkMilestoneAchievements(sessTbl, t)

\* mutant: the stored identifiers are not read
UnlockedIdsNone(achTbl) == {}

\* new Set(unlocked.map((a) => a.achievement_id)) of SELECT achievement_id FROM achievements
UnlockedIds(achTbl) == DOMAIN achTbl

\* mutant: nothing is filtered out
NewOnlyAll(achieved, unlockedIds) == achieved

\* achieved.filter((a) => !unlockedIds.has(a.id))
NewOnly(achieved, unlockedIds) == {a \in achieved : a.id \notin unlockedIds}

getNewAchievements(sessTbl, projTbl, achTbl, t) ==
    NewOnly(AchievedNow(sessTbl, projTbl, t), UnlockedIds(achTbl))

\* INSERT OR REPLACE INTO achievements
saveAchievement(achTbl, achievement) ==
    (achievement.id :> [type        |-> achievement.type,
                        unlocked_at |-> ToISOString(achievement.unlockedAt),
                        metadata    |-> achievement.metadata]) @@
    [id \in DOMAIN achTbl \ {achievement.id} |-> achTbl[id]]

Ids(as) == {a.id : a \in as}

(***************************************************************************)
(* utils/habit-detector: calculateStreak                                   *)
(***************************************************************************)
MsPerHour == 60 * 60 * 1000

\* the length of the trailing window of the query, in days
WindowDays == 90

\* In this function an instant is the pair <<UTC day, ms within the day>>, the
\* form of its ISO string, so that days months apart stay in range.
\* format(date, 'yyyy-MM-dd') and Date.prototype.getDate() use the time zone
\* of the process: the calendar day of an instant where local time is UTC + tz
LocalDay(iso, tz) == iso[1] + ((iso[2] + tz) \div MsPerDay)

\* parseISO('yyyy-MM-dd'): the instant of the local midnight that starts the day
LocalMidnight(day, tz) == <<day + ((0 - tz) \div MsPerDay), (0 - tz) % MsPerDay>>

\* datetime('now', '-90 days'): "YYYY-MM-DD HH:MM:SS" in UTC
DatetimeDaysAgo(iso, days) == <<iso[1] - days, iso[2]>>

\* start_time >= datetime(...) compares text: the dates decide, and for equal
\* dates the "T" of the ISO string is greater than the " " of datetime()
IsoTextNotBefore(iso, dt) == iso[1] >= dt[1]

\* SELECT DISTINCT DATE(start_time) ... WHERE start_time >= datetime('now',
\* '-90 days'): the UTC dates of the sessions in the window
RecentDates(sessTbl, t) ==
    {sessTbl[id].start_time[1] :
        id \in {x \in DOMAIN sessTbl :
                    IsoTextNotBefore(sessTbl[x].start_time, DatetimeDaysAgo(t, WindowDays))}}

\* ORDER BY date DESC: row i is the date with i - 1 later dates
OrderDesc(dates) ==
    [i \in 1..Cardinality(dates) |->
        CHOOSE d \in dates : Cardinality({e \in dates : e > d}) = i - 1]

\* "Calculate current streak": rows are counted from the first one for as
\* long as row i (from 0) is the date i days before today; the loop breaks
\* at the first row that is not
CurrentStreakLoop(recentDays, today) ==
    LET counted == {k \in 0..Len(recentDays) :
                        \A i \in 0..(k - 1) : recentDays[i + 1] = today - i}
    IN  CHOOSE k \in counted : \A j \in counted : j <= k

\* "Calculate longest streak": tempStreak restarts at 1 at every pair of
\* neighbouring rows that are not one day apart and longestStreak is raised
\* only when tempStreak is incremented, so the loop leaves the length of the
\* longest stretch of two or more rows a day apart each, or 0.
\* differenceInDays of the local midnights of two dates is the difference of
\* the dates
LongestStreakLoop(recentDays) ==
    LET stretches == {ij \in (1..Len(recentDays)) \X (1..Len(recentDays)) :
                        /\ ij[1] < ij[2]
                        /\ \A k \in ij[1]..(ij[2] - 1) :
                              recentDays[k] - recentDays[k + 1] = 1}
        lengths == {0} \cup {ij[2] - ij[1] + 1 : ij \in stretches}
    IN  CHOOSE n \in lengths : \A m \in lengths : m <= n

\* calculateStreak(db) at instant t in a process whose local time is UTC + tz;
\* lastActive is parseISO of the newest date: its local midnight
calculateStreak(sessTbl, t, tz) ==
    LET recentDays == OrderDesc(RecentDates(sessTbl, t))
    IN  IF Len(recentDays) = 0
        THEN [current |-> 0, longest |-> 0, lastActive |-> None]
        ELSE LET currentStreak == CurrentStreakLoop(recentDays, LocalDay(t, tz))
                 longestStreak == LongestStreakLoop(recentDays)
             IN  [current    |-> currentStreak,
                  longest    |-> Max(longestStreak, currentStreak),
                  lastActive |-> Some(LocalMidnight(recentDays[1], tz))]

(***************************************************************************)
(* utils/skill-proficiency: the proficiency score of one skill             *)
(*                                                                         *)
(* The scores are fractions; a fraction is the pair <<numerator,           *)
(* denominator>> and the arithmetic on them is exact, but for Math.log10,  *)
(* which is rounded down to a multiple of one third (it is exact at the    *)
(* powers of ten).                                                         *)
(***************************************************************************)
Min(a, b) == IF a <= b THEN a ELSE b

\* 3 * Math.log10(m), rounded down: the largest k with 10^k <= m^3
Log10Thirds(m) ==
    LET ks == {k \in 0..9 : 10^k <= m * m * m}
    IN  CHOOSE k \in ks : \A j \in ks : j <= k

\* Math.min(100, Math.log10(usageCount + 1) * 40), in thirds
UsageScore(usageCount) == <<Min(3 * 100, Log10Thirds(usageCount + 1) * 40), 3>>

\* Math.min(100, (daysSinceFirstUse / 365) * 50), in 73rds
TimeScore(daysSinceFirstUse) == <<Min(73 * 100, daysSinceFirstUse * 10), 73>>

\* calculateProficiencyScore: usageScore * 0.4 + timeScore * 0.2 +
\* consistencyScore * 0.2 + depthScore * 0.2, with consistency a fraction and
\* depth a fraction too
calculateProficiencyScore(metrics) ==
    LET u == UsageScore(metrics.usageCount)
        ts == TimeScore(metrics.daysSinceFirstUse)
        c == metrics.consistency
        d == metrics.depth
        den == u[2] * ts[2] * c[2] * d[2]
    IN  <<2 * u[1] * (den \div u[2]) + ts[1] * (den \div ts[2])
            + c[1] * (den \div c[2]) + d[1] * (den \div d[2]),
          5 * den>>

\* getProficiencyLevel
getProficiencyLevel(score) ==
    IF score[1] >= 80 * score[2] THEN "expert"
    ELSE IF score[1] >= 60 * score[2] THEN "advanced"
    ELSE IF score[1] >= 30 * score[2] THEN "intermediate"
    ELSE "beginner"

\* mutant: regularity is days per session instead of sessions per day
RegularityScoreInverted(sessionCount, daysSinceFirstUse) ==
    <<Min(100 * sessionCount, Max(1, daysSinceFirstUse) * 100), sessionCount>>

\* Math.min(100, (data.sessions / Math.max(1, daysSinceFirstUse)) * 100)
RegularityScore(sessionCount, daysSinceFirstUse) ==
    <<Min(100 * Max(1, daysSinceFirstUse), sessionCount * 100), Max(1, daysSinceFirstUse)>>

\* Math.max(0, 100 - daysSinceLastUse * 2)
RecencyScore(daysSinceLastUse) == Max(0, 100 - daysSinceLastUse * 2)

\* the proficiency entry analyzeSkillProficiency pushes for one skill; data is
\* its skillMap value, avgDepth in tenths of a prompt
SkillProficiency(data, daysSinceFirstUse, daysSinceLastUse) ==
    LET regularity == RegularityScore(data.sessions, daysSinceFirstUse)
        consistency == <<RecencyScore(daysSinceLastUse) * regularity[2] + regularity[1],
                         2 * regularity[2]>>
        depth == <<Min(100, data.avgDepth), 1>>
        proficiencyScore == calculateProficiencyScore(
                                [usageCount        |-> data.sessions,
                                 daysSinceFirstUse |-> daysSinceFirstUse,
                                 consistency       |-> consistency,
                                 depth             |-> depth])
    IN  [score             |-> proficiencyScore,
         level             |-> getProficiencyLevel(proficiencyScore),
         proficiency       |-> RoundDiv(proficiencyScore[1], proficiencyScore[2]),
         usageCount        |-> data.sessions,
         daysSinceFirstUse |-> daysSinceFirstUse,
         consistency       |-> RoundDiv(consistency[1], consistency[2]),
         depth             |-> RoundDiv(depth[1], depth[2])]

(***************************************************************************)
(* The store, the two files and the clock as a state machine               *)
(***************************************************************************)

\* the project and sessionId of the lines the assistant writes to the log
LoggedShapes ==
    {[project |-> "p1", sessionId |-> None],
     [project |-> "p1", sessionId |-> Some("s1")],
     [project |-> "p2", sessionId |-> None]}

\* the lines of a log with one project and no explicit session ids
DailyShapes == {[project |-> "p1", sessionId |-> None]}

\* the lines of a log with two projects and no explicit session ids
FaultShapes == {[project |-> "p1", sessionId |-> None], [project |-> "p2", sessionId |-> None]}

\* the clock steps of the runs with statements that throw
FaultSteps == {0, DefaultSessionGapMs + 1}

\* how far a clock reading is after the previous one: not at all, a
\* millisecond, just over the idle gap
ClockSteps == {0, 1, DefaultSessionGapMs + 1}

\* the same for the runs that follow the achievements over days
DaySteps == {0, MsPerDay}

\* new Date(): a reading t not before the last one
ReadClock(t) ==
    /\ t > now => ticks < MaxTicks
    /\ now' = t
    /\ ticks' = IF t > now THEN ticks + 1 ELSE ticks

ClockReadings(steps) == {now + d : d \in steps}

NoResult == [promptsProcessed |-> 0, sessionsCreated |-> 0, projectsUpdated |-> 0,
             errors |-> <<>>, lastSyncTime |-> 0]

NoSync == [watermark |-> None, sessionIds |-> {}, nPrompts |-> 0, nProjects |-> 0,
           newSessions |-> <<>>, prevOp |-> "write", prevAborted |-> FALSE,
           faults |-> NoFaults]

NothingSince == [saved |-> {}, synced |-> FALSE]

NoCheck == [time |-> 0, prevTime |-> 0, prevIds |-> {}, saved |-> {}, synced |-> FALSE]

\* no process has run yet
NoProcess == [command |-> "none", exitCode |-> 0, storeClosed |-> TRUE, shown |-> {},
              notification |-> "none", unlockedAtNotification |-> {}]

InitStore ==
    /\ now = 0
    /\ ticks = 0
    /\ history = <<>>
    /\ config = ClaudeConfig(EmptyMap)
    /\ sessions = EmptyMap
    /\ prompts = <<>>
    /\ projects = EmptyMap
    /\ metadata = None
    /\ result = NoResult
    /\ lastSync = NoSync
    /\ lastOp = "write"
    /\ syncs = 0
    /\ configWrites = 0
    /\ achievements = EmptyMap
    /\ lastNew = {}
    /\ checks = 0
    /\ lastCheck = NoCheck
    /\ sinceCheck = NothingSince
    /\ proc = NoProcess

\* the assistant appends one line to history.jsonl, stamped with the time of
\* the append
AppendEntry(shapes, steps) ==
    /\ Len(history) < MaxEvents
    /\ \E t \in ClockReadings(steps), shape \in shapes :
        /\ ReadClock(t)
        /\ history' = Append(history, [display   |-> Len(history) + 1,
                                       timestamp |-> t,
                                       project   |-> shape.project,
                                       sessionId |-> shape.sessionId])
    /\ lastOp' = "write"
    /\ UNCHANGED <<config, sessions, prompts, projects, metadata, result, lastSync,
                   syncs, configWrites, proc>>

\* the assistant rewrites ~/.claude.json, at most maxWrites times
WriteConfigWithin(maxWrites) ==
    /\ configWrites < maxWrites
    /\ \E c \in ConfigValues : c # config /\ config' = c
    /\ configWrites' = configWrites + 1
    /\ lastOp' = "write"
    /\ UNCHANGED <<now, ticks, history, sessions, prompts, projects, metadata, result,
                   lastSync, syncs, proc>>
    /\ UNCHANGED avars

WriteConfig == WriteConfigWithin(MaxConfigWrites)

\* "Sync failed" is in the error list: the run ended in the outer catch
Aborted(res) == \E k \in 1..Len(res.errors) : res.errors[k] = "Sync failed"

\* the statements of a run that may throw: none, or one of one of the loops
FaultSets ==
    LET entriesToProcess == EntriesToProcess(history, getMetadata(metadata))
        newSessions == groupIntoSessions(entriesToProcess, DefaultSessionGapMs)
        allProjects == {newSessions[k].project : k \in 1..Len(newSessions)}
                       \cup DOMAIN config.projects
    IN  {NoFaults}
        \cup {[NoFaults EXCEPT !.sessions = {k}] : k \in 1..Len(newSessions)}
        \cup {[NoFaults EXCEPT !.prompts = {i}] : i \in 1..Len(entriesToProcess)}
        \cup {[NoFaults EXCEPT !.projects = {p}] : p \in allProjects}

\* a caller runs syncData, the statements of one of faultSets throwing
SyncWith(steps, faultSets) ==
    /\ syncs < MaxSyncs
    /\ syncs' = syncs + 1
    /\ \E t \in ClockReadings(steps), faults \in faultSets :
        /\ ReadClock(t)
        /\ LET run == SyncRun(t, faults)
           IN  /\ sessions' = run.sessions
               /\ prompts' = run.prompts
               /\ projects' = run.projects
               /\ metadata' = run.metadata
               /\ result' = run.result
        /\ lastSync' = [watermark   |-> metadata,
                        sessionIds  |-> DOMAIN sessions,
                        nPrompts    |-> Len(prompts),
                        nProjects   |-> Cardinality(DOMAIN projects),
                        newSessions |-> groupIntoSessions(EntriesToProcess(history, metadata),
                                                          DefaultSessionGapMs),
                        prevOp      |-> lastOp,
                        prevAborted |-> Aborted(result),
                        faults      |-> faults]
    /\ lastOp' = "sync"
    /\ UNCHANGED <<history, config, configWrites>>

\* the sync command (or the hook) runs syncData and every statement succeeds
Sync(steps) == SyncWith(steps, {NoFaults})

\* a sync between two evaluations of the achievement rules
SyncAndNote(steps) ==
    /\ Sync(steps)
    /\ sinceCheck' = [sinceCheck EXCEPT !.synced = TRUE]
    /\ UNCHANGED <<achievements, lastNew, checks, lastCheck, proc>>

\* the hook or the achievements command evaluates the rules
GetNewAchievements(steps) ==
    /\ checks < MaxChecks
    /\ checks' = checks + 1
    /\ \E t \in ClockReadings(steps) :
        /\ ReadClock(t)
        /\ lastNew' = getNewAchievements(sessions, projects, achievements, t)
        /\ lastCheck' = [time     |-> t,
                         prevTime |-> lastCheck.time,
                         prevIds  |-> Ids(lastNew),
                         saved    |-> sinceCheck.saved,
                         synced   |-> sinceCheck.synced]
    /\ sinceCheck' = NothingSince
    /\ lastOp' = "check"
    /\ UNCHANGED <<history, config, sessions, prompts, projects, metadata, result, lastSync,
                   syncs, configWrites, achievements, proc>>

\* the caller persists one of the achievements the last call returned
SaveAchievement ==
    /\ \E a \in lastNew :
        /\ achievements' = saveAchievement(achievements, a)
        /\ achievements' # achievements
        /\ sinceCheck' = [sinceCheck EXCEPT !.saved = @ \cup {a.id}]
    /\ lastOp' = "save"
    /\ UNCHANGED <<now, ticks, history, config, sessions, prompts, projects, metadata, result,
                   lastSync, syncs, configWrites, lastNew, checks, lastCheck, proc>>

NoCall == <<>>

InitFnIdle ==
    /\ fnArg = NoCall
    /\ fnOut = NoCall
    /\ fnPc = "idle"

InitGroupIdle ==
    /\ gEntries = <<>>
    /\ gGap = 0
    /\ gOut = [sessions |-> <<>>, groups |-> <<>>, sorted |-> <<>>]
    /\ gPc = "idle"
    /\ InitFnIdle

Init == InitGroupIdle /\ InitStore

\* syncData and the writers of its two input files
Next ==
    \/ AppendEntry(LoggedShapes, ClockSteps) /\ UNCHANGED <<gvars, avars>>
    \/ WriteConfig /\ UNCHANGED gvars
    \/ Sync(ClockSteps) /\ UNCHANGED <<gvars, avars, proc>>

Spec == Init /\ [][Next]_vars

(***************************************************************************)
(* The CLI commands and the post-session hook as processes                 *)
(***************************************************************************)

\* a process that ended: how it exited, whether closeDatabase(db) ran before
\* it ended, and what it printed
Process(command, exitCode, storeClosed, shown) ==
    [command |-> command, exitCode |-> exitCode, storeClosed |-> storeClosed,
     shown |-> shown, notification |-> "none", unlockedAtNotification |-> {}]

\* the action of the sync command around the syncData call that returned res:
\* syncData returns its result on every path, so the try block runs to its
\* end, the finally block closes the store and the process ends with status 0
SyncProcess(res) ==
    Process("sync", 0, TRUE,
            {"Sync completed successfully"}
            \cup (IF Len(res.errors) > 0 THEN {"errors occurred"} ELSE {}))

\* the sync command
SyncCommand(steps) ==
    /\ Sync(steps)
    /\ proc' = SyncProcess(result')

ExportTypes == {"sessions", "projects", "prompts", "daily"}

\* the action of the export command: process.exit(1) ends the process where
\* it is called, before the finally block
ExportProcess(type, format, queryThrows, noData) ==
    IF type \notin ExportTypes THEN Process("export", 1, FALSE, {"Invalid type"})
    ELSE IF queryThrows THEN Process("export", 1, FALSE, {"Export failed"})
    ELSE IF format = "json" THEN Process("export", 0, TRUE, {"Exported"})
    ELSE IF format = "csv"
    THEN IF noData THEN Process("export", 0, TRUE, {"No data to export"})
         ELSE Process("export", 0, TRUE, {"Exported"})
    ELSE Process("export", 1, FALSE, {"Invalid format"})

\* the export command, with the <type> argument and --format option the user
\* gives, and a query or file write that may throw
ExportCommand ==
    /\ \E type \in {"sessions", "bogus"}, format \in {"csv", "json", "xml"},
          queryThrows \in BOOLEAN :
            proc' = ExportProcess(type, format, queryThrows, DOMAIN sessions = {})
    /\ proc' # proc
    /\ UNCHANGED <<now, ticks, history, config, sessions, prompts, projects, metadata, result,
                   lastSync, lastOp, syncs, configWrites>>
    /\ UNCHANGED avars

\* mutant: the loop over the new achievements persists nothing
SaveAllNone(achTbl, as) == achTbl

\* for (const achievement of newAchievements) saveAchievement(db, achievement)
RECURSIVE SaveAll(_, _)
SaveAll(achTbl, as) ==
    IF as = {} THEN achTbl
    ELSE LET a == CHOOSE x \in as : TRUE
         IN  SaveAll(saveAchievement(achTbl, a), as \ {a})

\* loadNotificationConfig and the webhook: whether ANALYTICS_WEBHOOK_URL is
\* set with achievement notifications on, and whether the POST succeeds
NotificationEnvs == [configured : BOOLEAN, delivery : {"ok", "error"}]

\* sendNotification: true when the response is ok; a rejected fetch is caught
\* in the send function, which then returns false
sendNotification(env) == env.delivery = "ok"

\* main of the hook after the sync: the new achievements are saved, then the
\* notification is sent if there are any and it is configured; the catch
\* block swallows, the finally block closes the store, the process ends
HookProcess(newAchievements, achTbl, env) ==
    LET saved == SaveAll(achTbl, newAchievements)
        attempted == newAchievements # {} /\ env.configured
    IN  [command      |-> "hook",
         exitCode     |-> 0,
         storeClosed  |-> TRUE,
         shown        |-> IF newAchievements # {} THEN {"New Achievements Unlocked!"} ELSE {},
         notification |-> IF ~attempted THEN "none"
                          ELSE IF sendNotification(env) THEN "delivered" ELSE "failed",
         unlockedAtNotification |-> IF attempted THEN DOMAIN saved ELSE {}]

\* the post-session hook
Hook(steps) ==
    /\ Sync(steps)
    /\ lastNew' = getNewAchievements(sessions', projects', achievements, now')
    /\ achievements' = SaveAll(achievements, lastNew')
    /\ \E env \in NotificationEnvs : proc' = HookProcess(lastNew', achievements, env)
    /\ UNCHANGED <<checks, lastCheck, sinceCheck>>

NextCmd ==
    \/ AppendEntry(DailyShapes, DaySteps) /\ UNCHANGED <<gvars, avars>>
    \/ WriteConfig /\ UNCHANGED gvars
    \/ SyncCommand(DaySteps) /\ UNCHANGED <<gvars, avars>>
    \/ ExportCommand /\ UNCHANGED gvars
    \/ Hook(DaySteps) /\ UNCHANGED gvars

SpecCmd == Init /\ [][NextCmd]_vars

\* the same with statements that throw during a run
NextFault ==
    \/ AppendEntry(FaultShapes, FaultSteps) /\ UNCHANGED <<gvars, avars>>
    \/ WriteConfig /\ UNCHANGED gvars
    \/ SyncWith(FaultSteps, FaultSets) /\ UNCHANGED <<gvars, avars, proc>>

SpecFault == Init /\ [][NextFault]_vars

\* syncData with a ~/.claude.json that may be broken and then repaired
NextResync ==
    \/ AppendEntry(FaultShapes, FaultSteps) /\ UNCHANGED <<gvars, avars>>
    \/ WriteConfigWithin(MaxConfigWrites + 1) /\ UNCHANGED gvars
    \/ Sync(FaultSteps) /\ UNCHANGED <<gvars, avars, proc>>

SpecResync == Init /\ [][NextResync]_vars

\* syncData as two steps, so that the assistant can append to the log while
\* it runs. First step: result.lastSyncTime = new Date(), before anything is
\* read
SyncStart(steps) ==
    /\ fnPc = "idle"
    /\ syncs < MaxSyncs
    /\ \E t \in ClockReadings(steps) :
        /\ ReadClock(t)
        /\ fnArg' = [fn |-> "syncData", lastSyncTime |-> t]
    /\ fnPc' = "call"
    /\ lastOp' = "start"
    /\ UNCHANGED <<fnOut, gEntries, gGap, gOut, gPc>>
    /\ UNCHANGED <<history, config, sessions, prompts, projects, metadata, result, lastSync,
                   syncs, configWrites, proc>>
    /\ UNCHANGED avars

\* second step: the rest of the function, from getMetadata and
\* readHistoryFile to setMetadata(db, 'last_sync_time', result.lastSyncTime)
SyncFinish(steps) ==
    /\ fnPc = "call"
    /\ fnArg.fn = "syncData"
    /\ syncs' = syncs + 1
    /\ \E t \in ClockReadings(steps) :
        /\ ReadClock(t)
        /\ LET run == SyncRunAt(fnArg.lastSyncTime, t, NoFaults)
           IN  /\ sessions' = run.sessions
               /\ prompts' = run.prompts
               /\ projects' = run.projects
               /\ metadata' = run.metadata
               /\ result' = run.result
    /\ lastSync' = [watermark   |-> metadata,
                    sessionIds  |-> DOMAIN sessions,
                    nPrompts    |-> Len(prompts),
                    nProjects   |-> Cardinality(DOMAIN projects),
                    newSessions |-> groupIntoSessions(EntriesToProcess(history, metadata),
                                                      DefaultSessionGapMs),
                    prevOp      |-> lastOp,
                    prevAborted |-> Aborted(result),
                    faults      |-> NoFaults]
    /\ fnPc' = "idle"
    /\ lastOp' = "sync"
    /\ UNCHANGED <<fnArg, fnOut, gEntries, gGap, gOut, gPc>>
    /\ UNCHANGED <<history, config, configWrites, proc>>
    /\ UNCHANGED avars

\* the clock steps of these runs: none, or a millisecond
OverlapSteps == {0, 1}

\* a log of one project without explicit session ids, appended to before,
\* between and during syncs
NextOverlap ==
    \/ AppendEntry(DailyShapes, OverlapSteps) /\ UNCHANGED <<gvars, avars>>
    \/ SyncStart(OverlapSteps)
    \/ SyncFinish(OverlapSteps)

SpecOverlap == Init /\ [][NextOverlap]_vars

\* the same with the achievement evaluation, over days
NextAch ==
    \/ AppendEntry(DailyShapes, DaySteps) /\ UNCHANGED <<gvars, avars>>
    \/ WriteConfig /\ UNCHANGED gvars
    \/ SyncAndNote(DaySteps) /\ UNCHANGED gvars
    \/ GetNewAchievements(DaySteps) /\ UNCHANGED gvars
    \/ SaveAchievement /\ UNCHANGED gvars

SpecAch == Init /\ [][NextAch]_vars

(***************************************************************************)
(* Specification of one groupIntoSessions call on an arbitrary entry list  *)
(***************************************************************************)
EntryShapes == [timestamp : 0..MaxTs, project : Projects, sessionId : SessionIdValues]

\* entry number i of the list carries display i, so that entries are told apart
WithDisplay(shapes) ==
    [i \in 1..Len(shapes) |->
        [display   |-> i,
         timestamp |-> shapes[i].timestamp,
         project   |-> shapes[i].project,
         sessionId |-> shapes[i].sessionId]]

EntryLists == UNION {[1..n -> EntryShapes] : n \in 0..MaxEntries}

NoOutput == [sessions |-> <<>>, groups |-> <<>>, sorted |-> <<>>]

InitGroup ==
    /\ gEntries \in {WithDisplay(s) : s \in EntryLists}
    /\ gGap \in 0..MaxGap
    /\ gOut = NoOutput
    /\ gPc = "call"
    /\ InitFnIdle
    /\ InitStore

CallGroupIntoSessions ==
    /\ gPc = "call"
    /\ gOut' = GroupRun(gEntries, gGap)
    /\ gPc' = "done"
    /\ UNCHANGED <<gEntries, gGap>>
    /\ UNCHANGED fvars
    /\ UNCHANGED svars

NextGroup == CallGroupIntoSessions

SpecGroup == InitGroup /\ [][NextGroup]_vars

(***************************************************************************)
(* Specification of one checkCostAchievements call on an arbitrary         *)
(* projects table                                                          *)
(***************************************************************************)
\* the cache columns of a project row, as upsertProjectStats copies them from
\* the metrics of ~/.claude.json
CacheColumns ==
    [cache_read_tokens : {0, 50, 800, 850, 900, 950},
     cache_creation_tokens : {0, 50, 100, 200}]

ProjectTables == UNION {[ps -> CacheColumns] : ps \in SUBSET Projects}

InitCost ==
    /\ fnArg \in {[fn |-> "checkCostAchievements", projects |-> tbl] : tbl \in ProjectTables}
    /\ fnOut = NoCall
    /\ fnPc = "call"
    /\ gEntries = <<>>
    /\ gGap = 0
    /\ gOut = NoOutput
    /\ gPc = "idle"
    /\ InitStore

CallCheckCostAchievements ==
    /\ fnPc = "call"
    /\ fnArg.fn = "checkCostAchievements"
    /\ fnOut' = checkCostAchievements(fnArg.projects, now)
    /\ fnPc' = "done"
    /\ UNCHANGED <<fnArg, gEntries, gGap, gOut, gPc>>
    /\ UNCHANGED svars

NextCost == CallCheckCostAchievements

SpecCost == InitCost /\ [][NextCost]_vars

(***************************************************************************)
(* Specification of one calculateStreak call on an arbitrary sessions      *)
(* table, clock reading and time zone                                      *)
(***************************************************************************)
\* the UTC day of the clock readings tried
StreakDay == WindowDays + 10

\* the clock readings tried: early and late in that UTC day
StreakClock == {<<StreakDay, h * MsPerHour>> : h \in {4, 20}}

\* the time zones tried: local time is UTC + tz
TimeZones == {-8 * MsPerHour, 0, 8 * MsPerHour}

\* the UTC days with sessions: any days among the last MaxDaysBack before the
\* reading and its day, or a run of days that reaches to the edge of the
\* window of the query and beyond
ActiveDaySets ==
    (SUBSET ((StreakDay - MaxDaysBack)..StreakDay))
    \cup {(StreakDay - k)..StreakDay : k \in (WindowDays - 1)..(WindowDays + 1)}

\* one session per active day, started in the first hour of the day
SessionsOnDays(days) ==
    [d \in days |-> [project      |-> "p1",
                     start_time   |-> <<d, MsPerHour \div 2>>,
                     end_time     |-> <<d, MsPerHour \div 2>>,
                     prompt_count |-> 1,
                     duration_ms  |-> 0,
                     first_prompt |-> 1,
                     last_prompt  |-> 1]]

InitStreak ==
    /\ fnArg \in {[fn |-> "calculateStreak", sessions |-> SessionsOnDays(days),
                    now |-> t, tz |-> tz] :
                        days \in ActiveDaySets, t \in StreakClock, tz \in TimeZones}
    /\ fnOut = NoCall
    /\ fnPc = "call"
    /\ gEntries = <<>>
    /\ gGap = 0
    /\ gOut = NoOutput
    /\ gPc = "idle"
    /\ InitStore

CallCalculateStreak ==
    /\ fnPc = "call"
    /\ fnArg.fn = "calculateStreak"
    /\ fnOut' = calculateStreak(fnArg.sessions, fnArg.now, fnArg.tz)
    /\ fnPc' = "done"
    /\ UNCHANGED <<fnArg, gEntries, gGap, gOut, gPc>>
    /\ UNCHANGED svars

NextStreak == CallCalculateStreak

SpecStreak == InitStreak /\ [][NextStreak]_vars

\* checkStreakAchievements and calculateStreak on one sessions table at one
\* clock reading. The readings are early and late in a UTC day that has
\* MaxDaysBack days and more before it, the active days any of the last
\* MaxDaysBack days and that day
CompareDay == 2 * (MaxDaysBack + 1)

InitBothStreaks ==
    /\ fnArg \in {[fn |-> "streaks", sessions |-> SessionsOnDays(days),
                    now |-> <<CompareDay, h * MsPerHour>>, tz |-> tz] :
                        days \in SUBSET ((CompareDay - MaxDaysBack)..CompareDay),
                        h \in {4, 20}, tz \in TimeZones}
    /\ fnOut = NoCall
    /\ fnPc = "call"
    /\ gEntries = <<>>
    /\ gGap = 0
    /\ gOut = NoOutput
    /\ gPc = "idle"
    /\ InitStore

\* the hook's rule evaluation and the habits report read the same store:
\* the streak_days of the query and the achievements of the one, the result
\* of the other
CallBothStreaks ==
    /\ fnPc = "call"
    /\ fnArg.fn = "streaks"
    /\ fnOut' = [streakDays   |-> CurrentStreakQuery(fnArg.sessions),
                 achievements |-> checkStreakAchievements(fnArg.sessions, NewDate(fnArg.now)),
                 streak       |-> calculateStreak(fnArg.sessions, fnArg.now, fnArg.tz)]
    /\ fnPc' = "done"
    /\ UNCHANGED <<fnArg, gEntries, gGap, gOut, gPc>>
    /\ UNCHANGED svars

NextBothStreaks == CallBothStreaks

SpecBothStreaks == InitBothStreaks /\ [][NextBothStreaks]_vars

(***************************************************************************)
(* Specification of the proficiency score of one skill, computed for two   *)
(* session counts with the other inputs held fixed                         *)
(***************************************************************************)
\* session counts: the small ones and those around the points where the
\* usage score changes slope or saturates
UsageCounts == (1..MaxUsage) \cup {9, 10, 99, 100, 463, 464, 1000}

\* daysSinceFirstUse and daysSinceLastUse (the last use is not before the first)
DaysSinceUse == {0, 1, 7, 60, 365, 800}

\* AVG(prompt_count) in tenths
AvgDepths == {10, 55, 100, 250}

SkillInputs ==
    {[fn |-> "analyzeSkillProficiency", sessions |-> n, moreSessions |-> m,
      daysSinceFirstUse |-> f, daysSinceLastUse |-> l, avgDepth |-> a] :
        n \in UsageCounts, m \in UsageCounts, f \in DaysSinceUse, l \in DaysSinceUse,
        a \in AvgDepths}

InitSkill ==
    /\ fnArg \in {x \in SkillInputs :
                    x.sessions <= x.moreSessions /\ x.daysSinceLastUse <= x.daysSinceFirstUse}
    /\ fnOut = NoCall
    /\ fnPc = "call"
    /\ gEntries = <<>>
    /\ gGap = 0
    /\ gOut = NoOutput
    /\ gPc = "idle"
    /\ InitStore

\* the score of the skill with fnArg.sessions sessions and with
\* fnArg.moreSessions sessions
CallSkillProficiency ==
    /\ fnPc = "call"
    /\ fnArg.fn = "analyzeSkillProficiency"
    /\ fnOut' = [fewer |-> SkillProficiency([sessions |-> fnArg.sessions,
                                             avgDepth |-> fnArg.avgDepth],
                                            fnArg.daysSinceFirstUse, fnArg.daysSinceLastUse),
                 more  |-> SkillProficiency([sessions |-> fnArg.moreSessions,
                                             avgDepth |-> fnArg.avgDepth],
                                            fnArg.daysSinceFirstUse, fnArg.daysSinceLastUse)]
    /\ fnPc' = "done"
    /\ UNCHANGED <<fnArg, gEntries, gGap, gOut, gPc>>
    /\ UNCHANGED svars

NextSkill == CallSkillProficiency

SpecSkill == InitSkill /\ [][NextSkill]_vars

\* saveAchievement on its own: a store and an achievement, as evaluations of
\* the rules at different times on different days produce them (two hooks
\* that both evaluate the rules before either persists hold the same
\* identifier with different unlock times)
UnlockTimes == {0, MsPerHour, MsPerDay}

RuleAchievements ==
    {Achievement("streak_3", "streak", t, n) : t \in UnlockTimes, n \in {3, 4}}
    \cup {Achievement("sessions_10", "productivity", t, n) : t \in UnlockTimes, n \in {10, 11}}
    \cup {Achievement("cache_master", "cost", t, n) : t \in UnlockTimes, n \in {90, 95}}

AchievementStores ==
    {SaveAll(EmptyMap, as) :
        as \in {x \in SUBSET RuleAchievements :
                    \A a, b \in x : a.id = b.id => a = b}}

InitSave ==
    /\ fnArg \in {[fn |-> "saveAchievement", achievements |-> tbl, achievement |-> a] :
                        tbl \in AchievementStores, a \in RuleAchievements}
    /\ fnOut = NoCall
    /\ fnPc = "call"
    /\ gEntries = <<>>
    /\ gGap = 0
    /\ gOut = NoOutput
    /\ gPc = "idle"
    /\ InitStore

CallSaveAchievement ==
    /\ fnPc = "call"
    /\ fnArg.fn = "saveAchievement"
    /\ fnOut' = saveAchievement(fnArg.achievements, fnArg.achievement)
    /\ fnPc' = "done"
    /\ UNCHANGED <<fnArg, gEntries, gGap, gOut, gPc>>
    /\ UNCHANGED svars

NextSave == CallSaveAchievement

SpecSave == InitSave /\ [][NextSave]_vars

(***************************************************************************)
(* Properties of groupIntoSessions                                         *)
(***************************************************************************)
RECURSIVE SumSeq(_)
SumSeq(s) == IF s = <<>> THEN 0 ELSE Head(s) + SumSeq(Tail(s))

PromptCounts(ss) == [k \in 1..Len(ss) |-> ss[k].promptCount]

\* the indices of the returned sessions whose group holds the entry with display d
SessionsOf(out, d) ==
    {k \in 1..Len(out.groups) : \E j \in 1..Len(out.groups[k]) : out.groups[k][j].display = d}

GroupDone == gPc = "done" /\ Len(gEntries) > 0

\* C1: for a non-empty entry list the prompt counts of the returned sessions
\* sum to the number of entries, and every entry is in exactly one session
C1_PromptCountsSumToInput ==
    GroupDone =>
        /\ SumSeq(PromptCounts(gOut.sessions)) = Len(gEntries)
        /\ Len(gOut.groups) = Len(gOut.sessions)
        /\ \A k \in 1..Len(gOut.sessions) : gOut.sessions[k].promptCount = Len(gOut.groups[k])
        /\ \A i \in 1..Len(gEntries) : Cardinality(SessionsOf(gOut, gEntries[i].display)) = 1

C1_Witness ==
    /\ GroupDone
    /\ Len(gEntries) >= 3
    /\ Len(gOut.sessions) = 2
    /\ \E i \in 1..Len(gEntries) - 1 : gEntries[i].timestamp = gEntries[i + 1].timestamp

\* the scenario of the gap rule: entries at 0, 10 and 50 minutes, one project,
\* no explicit id, the default gap of 30 minutes
ScenarioEntries ==
    WithDisplay(<<[timestamp |-> 0, project |-> "p1", sessionId |-> None],
                  [timestamp |-> 10 * 60 * 1000, project |-> "p1", sessionId |-> None],
                  [timestamp |-> 50 * 60 * 1000, project |-> "p1", sessionId |-> None]>>)

SameLineage(a, b) == a.project = b.project /\ a.sessionId = b.sessionId

\* C2: two entries adjacent in the sorted order with the same project and the
\* same explicit session id (or both without) are in different sessions when
\* their timestamps differ by more than the gap and in the same session
\* otherwise; 0, 10, 50 minutes with a 30 minute gap give 2 prompts and 1 prompt
C2_GapRule ==
    GroupDone =>
        /\ \A i \in 1..Len(gOut.sorted) - 1 :
              LET a == gOut.sorted[i]
                  b == gOut.sorted[i + 1]
              IN  SameLineage(a, b) =>
                    /\ b.timestamp - a.timestamp > gGap
                          => SessionsOf(gOut, a.display) # SessionsOf(gOut, b.display)
                    /\ b.timestamp - a.timestamp <= gGap
                          => SessionsOf(gOut, a.display) = SessionsOf(gOut, b.display)
        /\ PromptCounts(groupIntoSessions(ScenarioEntries, 30 * 60 * 1000)) = <<2, 1>>

C2_Witness ==
    /\ GroupDone
    /\ gGap > 0
    /\ \E i \in 1..Len(gOut.sorted) - 2 :
          /\ SameLineage(gOut.sorted[i], gOut.sorted[i + 1])
          /\ SameLineage(gOut.sorted[i + 1], gOut.sorted[i + 2])
          /\ gOut.sorted[i + 1].timestamp - gOut.sorted[i].timestamp = gGap
          /\ gOut.sorted[i + 2].timestamp - gOut.sorted[i + 1].timestamp = gGap + 1
          /\ PromptCounts(gOut.sessions) = <<2, 1>>

\* C3: the returned sessions are in start-time order, and of two sessions of
\* the same project and session identifier the earlier one does not end after
\* the later one starts
C3_OrderedAndDisjoint ==
    GroupDone =>
        \A i, j \in 1..Len(gOut.sessions) :
            i < j =>
                /\ gOut.sessions[i].startTime <= gOut.sessions[j].startTime
                /\ SameLineage(gOut.groups[i][1], gOut.groups[j][1])
                      => gOut.sessions[i].endTime <= gOut.sessions[j].startTime

C3_Witness ==
    /\ GroupDone
    /\ gEntries # gOut.sorted
    /\ \E i, j \in 1..Len(gOut.sessions) :
          /\ i < j
          /\ SameLineage(gOut.groups[i][1], gOut.groups[j][1])
          /\ gOut.sessions[i].startTime < gOut.sessions[i].endTime
          /\ gOut.sessions[i].endTime < gOut.sessions[j].startTime

\* C4: in every returned session all grouped entries have the session's
\* project and one explicit session id, end >= start, promptCount >= 1 and
\* duration = end - start
C4_SessionInvariant ==
    GroupDone =>
        \A k \in 1..Len(gOut.sessions) :
            LET s == gOut.sessions[k]
                g == gOut.groups[k]
            IN  /\ \A j \in 1..Len(g) : g[j].project = s.project /\ g[j].sessionId = g[1].sessionId
                /\ Truthy(g[1].sessionId) => s.sessionId = g[1].sessionId[1]
                /\ s.endTime >= s.startTime
                /\ s.promptCount >= 1
                /\ s.duration = s.endTime - s.startTime

C4_Witness ==
    /\ GroupDone
    /\ \E k \in 1..Len(gOut.sessions) :
          /\ gOut.sessions[k].promptCount >= 2
          /\ gOut.sessions[k].duration > 0
          /\ Truthy(gOut.groups[k][1].sessionId)
    /\ \E i, j \in 1..Len(gEntries) : gEntries[i].project # gEntries[j].project

(***************************************************************************)
(* Properties of syncData and of the store                                 *)
(***************************************************************************)
AfterSync == lastOp = "sync"

\* C5: no sync lowers a project row's prompt count, session count, duration
\* or last-active time
C5_ProjectStatsNonDecreasing ==
    [][\A p \in DOMAIN projects :
          /\ p \in DOMAIN projects'
          /\ projects'[p].total_prompts >= projects[p].total_prompts
          /\ projects'[p].total_sessions >= projects[p].total_sessions
          /\ projects'[p].total_duration_ms >= projects[p].total_duration_ms
          /\ NewDate(projects'[p].last_active) >= NewDate(projects[p].last_active)]_vars

\* C6: a sync that directly follows a sync reports sessionsCreated = 0 and
\* leaves the number of rows of sessions, prompts and projects unchanged
C6_SecondSyncAddsNothing ==
    (AfterSync /\ lastSync.prevOp = "sync") =>
        /\ result.sessionsCreated = 0
        /\ DOMAIN sessions = lastSync.sessionIds
        /\ Len(prompts) = lastSync.nPrompts
        /\ Cardinality(DOMAIN projects) = lastSync.nProjects

\* the entries of the log a sync has to process, given the watermark it found
EntriesNewerThan(watermark) ==
    {i \in 1..Len(history) :
        watermark = None \/ history[i].timestamp > NewDate(watermark[1])}

\* the displays of the prompt rows the last sync inserted
InsertedDisplays == {prompts[i].display : i \in (lastSync.nPrompts + 1)..Len(prompts)}

\* C7: a sync inserts a prompt row for exactly the log entries whose timestamp
\* is strictly greater than the stored watermark, and for every entry of the
\* log when no watermark is stored
C7_ProcessesEntriesNewerThanWatermark ==
    AfterSync =>
        LET expected == EntriesNewerThan(lastSync.watermark)
        IN  /\ InsertedDisplays = {history[i].display : i \in expected}
            /\ Len(prompts) - lastSync.nPrompts = Cardinality(expected)
            /\ result.promptsProcessed = Cardinality(expected)

C7_Witness ==
    /\ AfterSync
    /\ lastSync.watermark # None
    /\ \E i, j \in 1..Len(history) :
          /\ history[i].timestamp = NewDate(lastSync.watermark[1])
          /\ history[j].timestamp > NewDate(lastSync.watermark[1])
          /\ InsertedDisplays = {history[j].display}

\* the sessions of the last run whose row is the final one written for its id
LastUpserts ==
    {k \in 1..Len(lastSync.newSessions) :
        \A j \in (k + 1)..Len(lastSync.newSessions) :
            lastSync.newSessions[j].sessionId # lastSync.newSessions[k].sessionId}

\* C8 as stated: an upsert on an existing session id changes nothing but end
\* time, prompt count and last prompt
C8_OnlyEndCountLastChange ==
    [][\A id \in DOMAIN sessions :
          /\ id \in DOMAIN sessions'
          /\ sessions'[id].start_time = sessions[id].start_time
          /\ sessions'[id].first_prompt = sessions[id].first_prompt
          /\ sessions'[id].project = sessions[id].project
          /\ sessions'[id].duration_ms = sessions[id].duration_ms]_vars

\* C8 amended: an upsert on an existing session id leaves start time, first
\* prompt and project as stored and sets end time, prompt count, duration and
\* last prompt to those of the upserted session
C8_UpsertKeepsStartFirstProject ==
    [][/\ \A id \in DOMAIN sessions :
            /\ id \in DOMAIN sessions'
            /\ sessions'[id].start_time = sessions[id].start_time
            /\ sessions'[id].first_prompt = sessions[id].first_prompt
            /\ sessions'[id].project = sessions[id].project
       /\ syncs' # syncs =>
            \A k \in LastUpserts' :
                LET s == lastSync'.newSessions[k]
                IN  /\ s.sessionId \in DOMAIN sessions'
                    /\ sessions'[s.sessionId].end_time = ToISOString(s.endTime)
                    /\ sessions'[s.sessionId].prompt_count = s.promptCount
                    /\ sessions'[s.sessionId].duration_ms = s.duration
                    /\ sessions'[s.sessionId].last_prompt = s.lastPrompt]_vars

\* a sync has upserted a session whose id was already stored with another
\* start time, first prompt and project
C8_Witness ==
    /\ AfterSync
    /\ \E k \in 1..Len(lastSync.newSessions) :
          LET s == lastSync.newSessions[k]
          IN  /\ s.sessionId \in lastSync.sessionIds
              /\ sessions[s.sessionId].start_time # ToISOString(s.startTime)
              /\ sessions[s.sessionId].first_prompt # s.firstPrompt
              /\ sessions[s.sessionId].project # s.project
              /\ sessions[s.sessionId].end_time = ToISOString(s.endTime)

(***************************************************************************)
(* Properties of getNewAchievements and saveAchievement                    *)
(***************************************************************************)
TwoChecks == checks >= 2

\* C9 as stated: two calls in a row on an unchanged store with nothing
\* persisted in between return the same identifiers, and a call returns none
\* of the identifiers persisted since the call before it
C9_SameSetTwiceAndNoneAfterPersist ==
    TwoChecks =>
        /\ (~lastCheck.synced /\ lastCheck.saved = {}) => Ids(lastNew) = lastCheck.prevIds
        /\ Ids(lastNew) \cap lastCheck.saved = {}

\* C9 amended: the same, for two calls that read the same time from the clock
C9_SameSetAtSameTimeAndNoneAfterPersist ==
    TwoChecks =>
        /\ (~lastCheck.synced /\ lastCheck.saved = {} /\ lastCheck.time = lastCheck.prevTime)
              => Ids(lastNew) = lastCheck.prevIds
        /\ Ids(lastNew) \cap lastCheck.saved = {}

\* two calls in a row at one clock reading returned the same non-empty set, or
\* the first call's results were all persisted and are still satisfied
C9_Witness ==
    /\ TwoChecks
    /\ ~lastCheck.synced
    /\ lastCheck.time = lastCheck.prevTime
    /\ Cardinality(lastCheck.prevIds) >= 2
    /\ lastCheck.saved # {}
    /\ lastCheck.saved # lastCheck.prevIds
    /\ Ids(lastNew) = lastCheck.prevIds \ lastCheck.saved

\* C10: an identifier stays in the achievements table once it is persisted,
\* and a getNewAchievements call returns no identifier that is in the table
\* when it runs
C10_UnlockedNeverNewAgain ==
    [][/\ DOMAIN achievements \subseteq DOMAIN achievements'
       /\ checks' # checks => Ids(lastNew') \cap DOMAIN achievements = {}]_vars

\* a call, made after a later sync, left out a persisted identifier whose rule
\* is still satisfied
C10_Witness ==
    /\ lastOp = "check"
    /\ lastCheck.synced
    /\ \E id \in DOMAIN achievements :
          /\ id \in Ids(AchievedNow(sessions, projects, now))
          /\ id \notin Ids(lastNew)
          /\ NewDate(achievements[id].unlocked_at) < now

(***************************************************************************)
(* Properties of checkCostAchievements                                     *)
(***************************************************************************)
CostDone == fnPc = "done" /\ fnArg.fn = "checkCostAchievements"

\* the rows the cache query sums over, and its two sums
CachingRows(tbl) == {p \in DOMAIN tbl : tbl[p].cache_creation_tokens > 0}
CacheRead(tbl) == SumOver([p \in CachingRows(tbl) |-> tbl[p].cache_read_tokens], CachingRows(tbl))
CacheCreation(tbl) ==
    SumOver([p \in CachingRows(tbl) |-> tbl[p].cache_creation_tokens], CachingRows(tbl))

\* read > 0, creation > 0 and 100 * read / (read + creation) >= pct
HitRatioAtLeast(tbl, pct) ==
    /\ CacheRead(tbl) > 0
    /\ CacheCreation(tbl) > 0
    /\ 100 * CacheRead(tbl) >= pct * (CacheRead(tbl) + CacheCreation(tbl))

\* C11 as stated: whenever the cache hit ratio is >= 90 both cache_master and
\* cache_optimizer are produced
C11_BothTiersAtNinety ==
    (CostDone /\ HitRatioAtLeast(fnArg.projects, 90))
        => {"cache_master", "cache_optimizer"} \subseteq Ids(fnOut)

\* C11 amended: the two checks are exclusive tiers; a hit ratio >= 90
\* produces cache_master alone, a hit ratio >= 80 and < 90 cache_optimizer alone
C11_HighestTierOnly ==
    CostDone =>
        /\ HitRatioAtLeast(fnArg.projects, 90) => Ids(fnOut) = {"cache_master"}
        /\ (HitRatioAtLeast(fnArg.projects, 80) /\ ~HitRatioAtLeast(fnArg.projects, 90))
              => Ids(fnOut) = {"cache_optimizer"}

\* a ratio above 90 summed over two projects gave cache_master alone
C11_Witness ==
    /\ CostDone
    /\ Cardinality(CachingRows(fnArg.projects)) = 2
    /\ HitRatioAtLeast(fnArg.projects, 90)
    /\ ~HitRatioAtLeast(fnArg.projects, 91)
    /\ Ids(fnOut) = {"cache_master"}

\* C12: cache_master is produced whenever 100 * read / (read + creation) >= 90
\* with read > 0 and creation > 0, read and creation being the sums of the
\* cache query; for read = 900 and creation = 100 the ratio is exactly 90
C12_NinetyPercentUnlocksCacheMaster ==
    CostDone =>
        /\ HitRatioAtLeast(fnArg.projects, 90) => "cache_master" \in Ids(fnOut)
        /\ (CacheRead(fnArg.projects) = 900 /\ CacheCreation(fnArg.projects) = 100)
              => \E a \in fnOut : a.id = "cache_master" /\ a.metadata = 90
        /\ checkCostAchievements(
               ("p1" :> [cache_read_tokens |-> 900, cache_creation_tokens |-> 100]), now)
             = {Achievement("cache_master", "cost", now, 90)}

\* read = 900 and creation = 100 in the one project the query sums over, next
\* to a project without cache creation, which it leaves out
C12_Witness ==
    /\ CostDone
    /\ CacheRead(fnArg.projects) = 900
    /\ CacheCreation(fnArg.projects) = 100
    /\ \E p \in DOMAIN fnArg.projects \ CachingRows(fnArg.projects) :
          fnArg.projects[p].cache_read_tokens > 0
    /\ "cache_master" \in Ids(fnOut)

(***************************************************************************)
(* Properties of calculateStreak                                           *)
(***************************************************************************)
StreakDone == fnPc = "done" /\ fnArg.fn = "calculateStreak"

\* the calendar days, in the user's time zone, on which a session started
ActiveDays(sessTbl, tz) == {LocalDay(sessTbl[id].start_time, tz) : id \in DOMAIN sessTbl}

\* the run of consecutive active days that ends today: its length
RunEndingAt(days, today) == Cardinality({d \in days : d <= today /\ \A x \in d..today : x \in days})

\* the active days are a run of consecutive days ending today, but for at most
\* one day inside the run
RunWithAtMostOneGap(days, today) ==
    /\ today \in days
    /\ \A d \in days : d <= today
    /\ LET first == CHOOSE d \in days : \A e \in days : d <= e
       IN  Cardinality({x \in first..today : x \notin days}) <= 1

\* C13: when the active days, all within the window of the query, are a run
\* of N consecutive calendar days ending today the current streak is N, and
\* when one day inside the run has no activity it is the length of the run
\* after the gap
C13_CurrentStreakIsRunEndingToday ==
    StreakDone =>
        LET days == ActiveDays(fnArg.sessions, fnArg.tz)
            today == LocalDay(fnArg.now, fnArg.tz)
        IN  (RunWithAtMostOneGap(days, today) /\ Cardinality(days) < WindowDays)
                => fnOut.current = RunEndingAt(days, today)

(***************************************************************************)
(* Properties of the proficiency score                                     *)
(***************************************************************************)
SkillDone == fnPc = "done" /\ fnArg.fn = "analyzeSkillProficiency"

\* C14: with days since first use, days since last use and average prompt
\* depth held fixed, the proficiency score of the larger session count is not
\* below that of the smaller one, as a fraction and as rounded for the entry
C14_ScoreNonDecreasingInUsage ==
    SkillDone =>
        /\ fnOut.fewer.score[2] = fnOut.more.score[2]
        /\ fnOut.fewer.score[1] <= fnOut.more.score[1]
        /\ fnOut.fewer.proficiency <= fnOut.more.proficiency

\* more sessions raised a score whose regularity term was not yet saturated,
\* and lifted the level
C14_Witness ==
    /\ SkillDone
    /\ fnArg.sessions < fnArg.moreSessions
    /\ fnArg.moreSessions < fnArg.daysSinceFirstUse
    /\ fnOut.fewer.proficiency < fnOut.more.proficiency
    /\ fnOut.fewer.level # fnOut.more.level

(***************************************************************************)
(* Properties of syncData when statements throw                            *)
(***************************************************************************)
\* the entries the last sync had to process, in log order
LastEntries == EntriesToProcess(history, lastSync.watermark)

\* the positions in LastEntries of the entries whose insert failed: the
\* statement threw, or the session row it refers to is not in the store
FailedPrompts ==
    {i \in 1..Len(LastEntries) :
        LET k == FindSession(lastSync.newSessions, LastEntries[i])
        IN  k # 0 /\ (i \in lastSync.faults.prompts
                        \/ lastSync.newSessions[k].sessionId \notin DOMAIN sessions)}

\* the project paths the last sync had to write
LastProjects ==
    {lastSync.newSessions[k].project : k \in 1..Len(lastSync.newSessions)}
    \cup DOMAIN config.projects

ErrorSet == {result.errors[k] : k \in 1..Len(result.errors)}

\* C15: in a sync that reads its inputs, a session, prompt or project
\* statement that throws adds one entry to the error list, every other record
\* of the batch is written, and the watermark is set to the time of the run
C15_RecordFailureDoesNotAbort ==
    (AfterSync /\ ~config.malformed) =>
        /\ Len(result.errors) = Cardinality(lastSync.faults.sessions)
                                  + Cardinality(FailedPrompts)
                                  + Cardinality(lastSync.faults.projects)
        /\ \A k \in lastSync.faults.sessions :
              ("Failed to insert session " \o lastSync.newSessions[k].sessionId) \in ErrorSet
        /\ \A q \in lastSync.faults.projects : ("Failed to update project " \o q) \in ErrorSet
        /\ FailedPrompts # {} => "Failed to insert prompt" \in ErrorSet
        /\ \A k \in (1..Len(lastSync.newSessions)) \ lastSync.faults.sessions :
              lastSync.newSessions[k].sessionId \in DOMAIN sessions
        /\ result.sessionsCreated
              = Len(lastSync.newSessions) - Cardinality(lastSync.faults.sessions)
        /\ InsertedDisplays
              = {LastEntries[i].display : i \in (1..Len(LastEntries)) \ FailedPrompts}
        /\ result.promptsProcessed = Len(LastEntries) - Cardinality(FailedPrompts)
        /\ \A q \in LastProjects \ lastSync.faults.projects : q \in DOMAIN projects
        /\ result.projectsUpdated
              = Cardinality(LastProjects) - Cardinality(lastSync.faults.projects)
        /\ metadata = Some(ToISOString(result.lastSyncTime))
        /\ result.lastSyncTime = now

\* the upsert of one of two new sessions threw: its prompt failed on the
\* foreign key, the other session and its prompt were written, the project
\* rows too, and the watermark was set
C15_Witness ==
    /\ AfterSync
    /\ ~config.malformed
    /\ Len(lastSync.newSessions) = 2
    /\ lastSync.faults.sessions = {1}
    /\ lastSync.newSessions[1].sessionId \notin DOMAIN sessions
    /\ lastSync.newSessions[2].sessionId \in DOMAIN sessions
    /\ Len(result.errors) = 2
    /\ result.promptsProcessed = 1
    /\ result.projectsUpdated = 2
    /\ metadata = Some(ToISOString(now))

(***************************************************************************)
(* Properties of the commands and the hook as processes                    *)
(***************************************************************************)
\* C16: a sync command whose syncData run could not read ~/.claude.json ends
\* with a non-zero exit status and does not report success
C16_UnreadableConfigExitsNonZero ==
    (proc.command = "sync" /\ Aborted(result)) =>
        /\ proc.exitCode # 0
        /\ "Sync completed successfully" \notin proc.shown

\* C17: every process that opened the store called closeDatabase before it
\* ended, whatever its exit status
C17_StoreClosedOnEveryExitPath ==
    proc.command # "none" => proc.storeClosed

\* C18: when the hook's notification is not delivered the process still ends
\* with status 0 and the store closed, and every achievement the hook found
\* was in the achievements table when the notification was attempted
C18_NotificationFailureSwallowed ==
    (proc.command = "hook" /\ proc.notification = "failed") =>
        /\ proc.exitCode = 0
        /\ proc.storeClosed
        /\ lastNew # {}
        /\ Ids(lastNew) \subseteq proc.unlockedAtNotification
        /\ Ids(lastNew) \subseteq DOMAIN achievements

\* a hook run found new achievements, two or more are unlocked by now, and
\* its notification failed
C18_Witness ==
    /\ proc.command = "hook"
    /\ proc.notification = "failed"
    /\ Cardinality(lastNew) >= 1
    /\ Cardinality(DOMAIN achievements) >= 2
    /\ proc.exitCode = 0
    /\ proc.storeClosed

(***************************************************************************)
(* Properties of a sync that follows an aborted one                        *)
(***************************************************************************)
\* the prompt rows stored for the log entry with display d
PromptRowsOf(d) == {j \in 1..Len(prompts) : prompts[j].display = d}

\* the sessions table a single successful sync of the whole log leaves in an
\* empty store
SingleSyncSessions ==
    UpsertSessions([tbl |-> EmptyMap, created |-> 0, errors |-> <<>>],
                   groupIntoSessions(history, DefaultSessionGapMs), 1, NoFaults).tbl

\* C19: after a first sync that aborted on an unreadable ~/.claude.json and a
\* next sync that succeeded, the store holds exactly one prompt row per log entry
\* and the session rows a single successful sync would have written
C19_ResyncAfterAbortIsSafe ==
    (AfterSync /\ syncs = 2 /\ lastSync.prevAborted /\ ~Aborted(result)) =>
        /\ \A i \in 1..Len(history) : Cardinality(PromptRowsOf(history[i].display)) = 1
        /\ sessions = SingleSyncSessions

(***************************************************************************)
(* Properties of saveAchievement                                           *)
(***************************************************************************)
SaveDone == fnPc = "done" /\ fnArg.fn = "saveAchievement"

\* C20: saveAchievement of an identifier that already has a row in the
\* achievements table leaves the table, and so that row's unlock time and
\* metadata, as it was
C20_RepersistIsNoOp ==
    (SaveDone /\ fnArg.achievement.id \in DOMAIN fnArg.achievements) =>
        fnOut = fnArg.achievements

(***************************************************************************)
(* Properties of the watermark                                             *)
(***************************************************************************)
\* C21: a sync that does not end in the outer catch leaves last_sync_time at
\* the time the sync read from the clock, which is not before the watermark
\* it found; a sync that ends in the outer catch leaves last_sync_time as it
\* found it
C21_WatermarkAdvancesOnCompletionOnly ==
    [][syncs' # syncs =>
          IF Aborted(result')
          THEN metadata' = metadata
          ELSE /\ metadata' = Some(ToISOString(result'.lastSyncTime))
               /\ result'.lastSyncTime = now'
               /\ metadata # None => NewDate(metadata'[1]) >= NewDate(metadata[1])]_vars

\* a sync set the watermark to its own, later time, and the next sync ended in
\* the outer catch and kept it
C21_Witness ==
    /\ AfterSync
    /\ Aborted(result)
    /\ metadata # None
    /\ NewDate(metadata[1]) > 0
    /\ NewDate(metadata[1]) < result.lastSyncTime
    /\ metadata = lastSync.watermark

(***************************************************************************)
(* Properties of the prompt rows of a run                                  *)
(***************************************************************************)
\* the grouping of the entries the last sync processed, and the prompt rows
\* that sync inserted
LastGrouping == GroupRun(EntriesToProcess(history, lastSync.watermark), DefaultSessionGapMs)
LastInserted == SubSeq(prompts, lastSync.nPrompts + 1, Len(prompts))

\* C22: after a sync every entry it processed has exactly one prompt row of
\* that sync, the row references the session groupIntoSessions put the entry
\* in, and each session of the run has promptCount rows of that sync
C22_PromptReferencesOwningSession ==
    AfterSync =>
        LET run == LastGrouping
            rowsOf(d) == {i \in 1..Len(LastInserted) : LastInserted[i].display = d}
        IN  \A k \in 1..Len(run.sessions) :
                /\ \A j \in 1..Len(run.groups[k]) :
                      /\ Cardinality(rowsOf(run.groups[k][j].display)) = 1
                      /\ \A i \in rowsOf(run.groups[k][j].display) :
                            LastInserted[i].session_id = run.sessions[k].sessionId
                /\ Cardinality({i \in 1..Len(LastInserted) :
                                    LastInserted[i].session_id = run.sessions[k].sessionId})
                      = run.sessions[k].promptCount

(***************************************************************************)
(* Properties of the project rows                                          *)
(***************************************************************************)
\* the session rows stored for a project path
SessionsOfProject(p) == {id \in DOMAIN sessions : sessions[id].project = p}

\* C23: after a sync every project row carries the rollup of the session rows
\* stored for its path: the sums of prompt counts, sessions and durations, the
\* earliest start as first_seen and the latest end as last_active
C23_ProjectRowIsRollupOfStoredSessions ==
    AfterSync =>
        \A p \in DOMAIN projects :
            LET ss == SessionsOfProject(p)
            IN  /\ projects[p].total_sessions = Cardinality(ss)
                /\ projects[p].total_prompts =
                      SumOver([id \in ss |-> sessions[id].prompt_count], ss)
                /\ projects[p].total_duration_ms =
                      SumOver([id \in ss |-> sessions[id].duration_ms], ss)
                /\ ss # {} =>
                      /\ \A id \in ss : NewDate(projects[p].first_seen)
                                            <= NewDate(sessions[id].start_time)
                      /\ \E id \in ss : projects[p].first_seen = sessions[id].start_time
                      /\ \A id \in ss : NewDate(projects[p].last_active)
                                            >= NewDate(sessions[id].end_time)
                      /\ \E id \in ss : projects[p].last_active = sessions[id].end_time

(***************************************************************************)
(* Properties of the session identifiers                                   *)
(***************************************************************************)
\* C24: the sessions one groupIntoSessions call returns have pairwise
\* different session identifiers
C24_SessionIdsUniqueWithinRun ==
    GroupDone =>
        \A k, j \in 1..Len(gOut.sessions) :
            k # j => gOut.sessions[k].sessionId # gOut.sessions[j].sessionId

(***************************************************************************)
(* Properties of the longest streak                                        *)
(***************************************************************************)
\* the length of the longest run of consecutive days in a set of days
LongestRun(days) ==
    LET lengths == {0} \cup {RunEndingAt(days, d) : d \in days}
    IN  CHOOSE n \in lengths : \A m \in lengths : m <= n

\* C25: the longest streak is the length of the longest run of consecutive
\* dates among the dates of the window of the query, a date with no active
\* neighbour being a run of 1, and it is not below the current streak
C25_LongestStreakIsLongestRun ==
    StreakDone =>
        /\ fnOut.longest = LongestRun(RecentDates(fnArg.sessions, fnArg.now))
        /\ fnOut.longest >= fnOut.current

(***************************************************************************)
(* Properties of the session rows across syncs                             *)
(***************************************************************************)
\* the prompt rows that reference a session identifier
PromptRowsOfSession(id) == {j \in 1..Len(prompts) : prompts[j].session_id = id}

\* C26: in every state the prompt_count of each session row is the number of
\* prompt rows that reference its identifier
C26_PromptCountMatchesPromptRows ==
    \A id \in DOMAIN sessions :
        sessions[id].prompt_count = Cardinality(PromptRowsOfSession(id))

\* C27: in a log without explicit session ids, a sync that follows completed
\* syncs changes no session row it finds and adds one row for each session
\* it produced
C27_LaterSyncKeepsEarlierSessionRows ==
    [][(/\ syncs' # syncs
        /\ \A i \in 1..Len(history) : ~Truthy(history[i].sessionId)
        /\ ~lastSync'.prevAborted
        /\ ~Aborted(result'))
          => /\ \A id \in DOMAIN sessions :
                   id \in DOMAIN sessions' /\ sessions'[id] = sessions[id]
             /\ Cardinality(DOMAIN sessions') =
                   Cardinality(DOMAIN sessions) + Len(lastSync'.newSessions)]_vars

\* C28: in every state each session row has duration_ms = end_time -
\* start_time and end_time >= start_time
C28_DurationIsEndMinusStart ==
    \A id \in DOMAIN sessions :
        /\ sessions[id].duration_ms =
              NewDate(sessions[id].end_time) - NewDate(sessions[id].start_time)
        /\ NewDate(sessions[id].end_time) >= NewDate(sessions[id].start_time)

(***************************************************************************)
(* Properties of syncs that overlap appends                                *)
(***************************************************************************)
\* C29: when a sync has finished, every entry of the log it read has exactly
\* one prompt row: none was skipped by every sync so far and none was
\* inserted by two of them
C29_EveryEventInsertedByExactlyOneSync ==
    AfterSync =>
        \A i \in 1..Len(history) : Cardinality(PromptRowsOf(history[i].display)) = 1

(***************************************************************************)
(* Properties of the two streak computations                               *)
(***************************************************************************)
BothStreaksDone == fnPc = "done" /\ fnArg.fn = "streaks"

\* C30: on the same sessions table at the same time the streak length
\* checkStreakAchievements compares with the milestones is the current streak
\* calculateStreak returns, and there is no streak achievement when that is 0
C30_AchievementStreakIsCurrentStreak ==
    BothStreaksDone =>
        /\ fnOut.streakDays = fnOut.streak.current
        /\ fnOut.streak.current = 0 => fnOut.achievements = {}

=============================================================================
